---------------------------- MODULE Spec2Model ----------------------------
(***************************************************************************)
(* A model of the distance-vector routing daemon dv_routing:               *)
(*   src/main.c      the reactor: main, SenderThread, ReceiverThread,      *)
(*                   parseMessage, broadcastDV                             *)
(*   src/distance.c  the route table, getDistanceVector,                   *)
(*                   processDistanceVector, dvUpdate, dvSent               *)
(*   src/neighbor.c  the neighbor table, processHELLO,                     *)
(*                   removeStaleNeighbors, neighborStop                    *)
(* Datagrams and IP strings are TLA+ strings; the C string functions the   *)
(* code calls (strtok_r, strncpy, strchr, atoi, snprintf, strncat) are     *)
(* operators over them, computed character by character.                   *)
(***************************************************************************)
EXTENDS Integers, Sequences, FiniteSets, TLC

(***************************************************************************)
(* Program constants.                                                      *)
(***************************************************************************)
IP_STR_LEN == 32
NEIGHBOR_TIMEOUT_SEC == 10
HELLO_INTERVAL_SEC == 5
NO_ROUTE == 999999
PDV_BUF_LEN == 1024
PM_BUF_LEN == 512
INSIDE_LEN == 128
TUPLE_LEN == 128
DV_BUF_MAX == 2047
USHORT_RANGE == 65536
INT_MAX == 2147483647

\* distance.c keeps its own g_myIP and never learns the address given at startup.
g_myIP_distance == "0.0.0.0"

\* The address given to neighborInit (argv[1]); neighbor.c stores it in its g_myIP.
MyIP == "10.0.0.1"

(***************************************************************************)
(* C strings.                                                              *)
(***************************************************************************)
Char(s, i) == SubSeq(s, i, i)

\* strncpy(dst, src, n); dst[n] = '\0' : the first n characters of src.
StrNCpy(s, n) == IF Len(s) > n THEN SubSeq(s, 1, n) ELSE s

\* The first position >= i of s that does not hold c; Len(s)+1 when there is none.
SkipChar(s, i, c) ==
    CHOOSE p \in i..(Len(s) + 1) :
        /\ p = Len(s) + 1 \/ Char(s, p) # c
        /\ \A q \in i..(p - 1) : Char(s, q) = c

\* The first position >= i of s that holds c; Len(s)+1 when there is none.
FindChar(s, i, c) ==
    CHOOSE p \in i..(Len(s) + 1) :
        /\ p = Len(s) + 1 \/ Char(s, p) = c
        /\ \A q \in i..(p - 1) : Char(s, q) # c

\* strchr(s, c): the position of the first c, 0 for NULL.
StrChr(s, c) == LET p == FindChar(s, 1, c) IN IF p > Len(s) THEN 0 ELSE p

\* strtok_r(.., ":", &saveptr) on buffer s with saveptr at position pos: skips
\* the leading separators, returns the token up to the next separator and the
\* position after it; found = FALSE is the NULL return.
StrTok(s, pos) ==
    LET b == SkipChar(s, pos, ":")
        e == FindChar(s, b, ":")
    IN  [found |-> b <= Len(s),
         tok   |-> IF b <= Len(s) THEN SubSeq(s, b, e - 1) ELSE "",
         next  |-> IF e < Len(s) THEN e + 1 ELSE Len(s) + 1]

Digits == "0123456789"
IsDigit(c) == c \in {"0", "1", "2", "3", "4", "5", "6", "7", "8", "9"}
DigitVal(c) == FindChar(Digits, 1, c) - 1
DigitChar(d) == Char(Digits, d + 1)

RECURSIVE AtoiDigits(_, _, _)
AtoiDigits(s, i, acc) ==
    IF i > Len(s) \/ ~IsDigit(Char(s, i)) THEN acc
    ELSE AtoiDigits(s, i + 1, acc * 10 + DigitVal(Char(s, i)))

\* atoi(s): optional blanks, optional sign, then the leading decimal digits
\* (0 when there are none). The inputs of the model stay within int.
Atoi(s) ==
    LET b   == SkipChar(s, 1, " ")
        neg == b <= Len(s) /\ Char(s, b) = "-"
        st  == IF b <= Len(s) /\ Char(s, b) \in {"-", "+"} THEN b + 1 ELSE b
        v   == AtoiDigits(s, st, 0)
    IN  IF neg THEN 0 - v ELSE v

\* int addition of 1 as the build computes it (two's complement wrap).
IntSucc(v) == IF v = INT_MAX THEN (0 - INT_MAX) - 1 ELSE v + 1

RECURSIVE NatToStr(_)
NatToStr(n) ==
    IF n < 10 THEN DigitChar(n) ELSE NatToStr(n \div 10) \o DigitChar(n % 10)

\* printf's %d.
IntToStr(n) == IF n < 0 THEN "-" \o NatToStr(0 - n) ELSE NatToStr(n)

\* strncat(dst, src, n): dst followed by at most n characters of src.
StrNCat(dst, src, n) == dst \o StrNCpy(src, IF n < 0 THEN 0 ELSE n)

(***************************************************************************)
(* distance.c: the route table is a list of Route records, newest first.   *)
(***************************************************************************)
Route(dest, via, dist) == [destIP |-> dest, viaNeighbor |-> via, distance |-> dist]

\* findRoute: the position of the first route with this (dest, via), 0 for NULL.
RECURSIVE findRouteFrom(_, _, _, _)
findRouteFrom(routes, i, dest, via) ==
    IF i > Len(routes) THEN 0
    ELSE IF routes[i].destIP = dest /\ routes[i].viaNeighbor = via THEN i
    ELSE findRouteFrom(routes, i + 1, dest, via)

findRoute(routes, dest, via) == findRouteFrom(routes, 1, dest, via)

\* createRoute: both strings are cut to IP_STR_LEN - 1 characters; the new
\* route becomes the head of the list.
createRoute(routes, dest, via, dist) ==
    <<Route(StrNCpy(dest, IP_STR_LEN - 1), StrNCpy(via, IP_STR_LEN - 1), dist)>>
        \o routes

RECURSIVE findBestFrom(_, _, _, _)
findBestFrom(routes, i, dest, best) ==
    IF i > Len(routes) THEN best
    ELSE findBestFrom(routes, i + 1, dest,
            IF routes[i].destIP = dest /\ routes[i].distance < best
            THEN routes[i].distance ELSE best)

findBestDistance(routes, dest) == findBestFrom(routes, 1, dest, NO_ROUTE)

InSeq(x, sq) == \E k \in 1..Len(sq) : sq[k] = x

\* The loop of getDistanceVector over the route list.
RECURSIVE gdvLoop(_, _, _, _)
gdvLoop(routes, i, dvBuf, usedDest) ==
    IF i > Len(routes) THEN dvBuf
    ELSE IF InSeq(routes[i].destIP, usedDest)
         THEN gdvLoop(routes, i + 1, dvBuf, usedDest)
    ELSE LET dest     == routes[i].destIP
             bestDist == findBestDistance(routes, dest)
             tuple    == StrNCpy("(" \o dest \o "," \o IntToStr(bestDist) \o "):",
                                 TUPLE_LEN - 1)
             buf2     == IF bestDist < NO_ROUTE
                         THEN StrNCat(dvBuf, tuple, DV_BUF_MAX - Len(dvBuf))
                         ELSE dvBuf
         IN  gdvLoop(routes, i + 1, buf2,
                     Append(usedDest, StrNCpy(dest, IP_STR_LEN - 1)))

\* getDistanceVector: "<g_myIP>:DV:" followed by one "(dest,best):" per
\* distinct destination, in list order.
getDistanceVector(routes) ==
    gdvLoop(routes, 1, StrNCpy(g_myIP_distance \o ":DV:", DV_BUF_MAX - 1), <<>>)

\* The header of processDistanceVector: the buffer copy and the first two
\* tokens. valid = FALSE stands for the early returns.
pdvHeader(DV) ==
    LET buf == StrNCpy(DV, PDV_BUF_LEN - 1)
        t1  == StrTok(buf, 1)
        t2  == StrTok(buf, t1.next)
    IN  [buf      |-> buf,
         senderIP |-> t1.tok,
         valid    |-> t1.found /\ t2.found /\ t2.tok = "DV",
         pos      |-> t2.next]

\* The text of one token of the while loop: ok = FALSE stands for the two
\* continue statements (no leading parenthesis, no comma); otherwise the
\* destination and newDist = atoi(distStr) + 1.
pdvParse(tuple) ==
    IF Char(tuple, 1) # "(" THEN [ok |-> FALSE]
    ELSE
    LET in0    == StrNCpy(SubSeq(tuple, 2, Len(tuple)), INSIDE_LEN - 1)
        rp     == StrChr(in0, ")")
        inside == IF rp > 0 THEN SubSeq(in0, 1, rp - 1) ELSE in0
        comma  == StrChr(inside, ",")
    IN  IF comma = 0 THEN [ok |-> FALSE]
        ELSE [ok      |-> TRUE,
              destIP  |-> SubSeq(inside, 1, comma - 1),
              newDist |-> IntSucc(Atoi(SubSeq(inside, comma + 1, Len(inside))))]

\* A pass that overwrites a stored distance only with a smaller one.
pdvApply_OnlyBetter(routes, senderIP, t) ==
    IF ~t.ok THEN [routes |-> routes, changed |-> FALSE]
    ELSE LET r == findRoute(routes, t.destIP, senderIP)
         IN  IF r = 0
             THEN [routes  |-> createRoute(routes, t.destIP, senderIP, t.newDist),
                   changed |-> TRUE]
             ELSE IF routes[r].distance > t.newDist
             THEN [routes  |-> [routes EXCEPT ![r].distance = t.newDist],
                   changed |-> TRUE]
             ELSE [routes |-> routes, changed |-> FALSE]

\* The table part of one pass of the loop: findRoute, then createRoute or the
\* distance update; changed tells whether this pass set changed.
pdvApply(routes, senderIP, t) ==
    IF ~t.ok THEN [routes |-> routes, changed |-> FALSE]
    ELSE LET r == findRoute(routes, t.destIP, senderIP)
         IN  IF r = 0
             THEN [routes  |-> createRoute(routes, t.destIP, senderIP, t.newDist),
                   changed |-> TRUE]
             ELSE IF routes[r].distance # t.newDist
             THEN [routes  |-> [routes EXCEPT ![r].distance = t.newDist],
                   changed |-> TRUE]
             ELSE [routes |-> routes, changed |-> FALSE]

\* One pass of the while loop of processDistanceVector on one token.
pdvTuple(routes, senderIP, tuple) == pdvApply(routes, senderIP, pdvParse(tuple))

\* The tokens the while loop visits from saveptr position pos, each parsed.
RECURSIVE pdvTokens(_, _)
pdvTokens(buf, pos) ==
    LET t == StrTok(buf, pos)
    IN  IF ~t.found THEN <<>>
        ELSE <<pdvParse(t.tok)>> \o pdvTokens(buf, t.next)

\* The while loop of processDistanceVector over the parsed tokens.
RECURSIVE pdvLoop(_, _, _, _)
pdvLoop(routes, senderIP, toks, changed) ==
    IF toks = <<>> THEN [routes |-> routes, changed |-> changed]
    ELSE LET one == pdvApply(routes, senderIP, Head(toks))
         IN  pdvLoop(one.routes, senderIP, Tail(toks), changed \/ one.changed)

\* What processDistanceVector reads off the datagram, which involves no table:
\* the header and the parsed tokens of the loop.
pdvRead(DV) ==
    LET h == pdvHeader(DV)
    IN  [valid    |-> h.valid,
         senderIP |-> h.senderIP,
         toks     |-> IF h.valid THEN pdvTokens(h.buf, h.pos) ELSE <<>>]

\* processDistanceVector as one call: the table afterwards, the value of
\* changed after the loop (dvUpdate is called when it is TRUE).
processDistanceVector(routes, DV) ==
    LET d == pdvRead(DV)
    IN  IF ~d.valid THEN [routes |-> routes, changed |-> FALSE]
        ELSE pdvLoop(routes, d.senderIP, d.toks, FALSE)

(***************************************************************************)
(* neighbor.c: the neighbor table is a list of NeighborNode records,       *)
(* newest first.                                                           *)
(***************************************************************************)
NeighborNode(ipStr, seq, heard) == [ip |-> ipStr, lastSeq |-> seq, lastHeard |-> heard]

RECURSIVE findNeighborFrom(_, _, _)
findNeighborFrom(list, i, ipStr) ==
    IF i > Len(list) THEN 0
    ELSE IF list[i].ip = ipStr THEN i
    ELSE findNeighborFrom(list, i + 1, ipStr)

\* findNeighbor: the position of the first node with this ip, 0 for NULL.
findNeighbor(list, ipStr) == findNeighborFrom(list, 1, ipStr)

\* createNeighbor: the ip is cut to IP_STR_LEN - 1 characters; the new node
\* becomes the head of the list.
createNeighbor(list, ipStr, seq, t) ==
    <<NeighborNode(StrNCpy(ipStr, IP_STR_LEN - 1), seq, t)>> \o list

\* A sweep that, after unlinking a node, steps over the node that follows it.
RECURSIVE removeStaleNeighbors_SkipNext(_, _)
removeStaleNeighbors_SkipNext(list, t) ==
    IF list = <<>> THEN <<>>
    ELSE IF t - Head(list).lastHeard > NEIGHBOR_TIMEOUT_SEC
         THEN IF Tail(list) = <<>> THEN <<>>
              ELSE <<Head(Tail(list))>>
                       \o removeStaleNeighbors_SkipNext(Tail(Tail(list)), t)
         ELSE <<Head(list)>> \o removeStaleNeighbors_SkipNext(Tail(list), t)

\* A sweep that also removes the entries heard exactly NEIGHBOR_TIMEOUT_SEC ago.
RECURSIVE removeStaleNeighbors_AtTimeout(_, _)
removeStaleNeighbors_AtTimeout(list, t) ==
    IF list = <<>> THEN <<>>
    ELSE IF t - Head(list).lastHeard >= NEIGHBOR_TIMEOUT_SEC
         THEN removeStaleNeighbors_AtTimeout(Tail(list), t)
         ELSE <<Head(list)>> \o removeStaleNeighbors_AtTimeout(Tail(list), t)

\* removeStaleNeighbors with the clock value t read before the sweep.
RECURSIVE removeStaleNeighbors(_, _)
removeStaleNeighbors(list, t) ==
    IF list = <<>> THEN <<>>
    ELSE IF t - Head(list).lastHeard > NEIGHBOR_TIMEOUT_SEC
         THEN removeStaleNeighbors(Tail(list), t)
         ELSE <<Head(list)>> \o removeStaleNeighbors(Tail(list), t)

\* neighborInit's copy of the address given at startup into g_myIP.
StoredMyIP(myIp) == StrNCpy(myIp, IP_STR_LEN - 1)

\* A processHELLO that drops a HELLO whose seq is not above the stored one.
processHELLO_DropOld(list, myIP, senderIP, seq, t) ==
    IF senderIP = myIP THEN list
    ELSE LET n == findNeighbor(list, senderIP)
         IN  IF n = 0 THEN createNeighbor(list, senderIP, seq, t)
             ELSE IF seq > list[n].lastSeq
             THEN [list EXCEPT ![n].lastSeq = seq, ![n].lastHeard = t]
             ELSE list

\* A processHELLO that makes a new entry for every HELLO it accepts.
processHELLO_Recreate(list, myIP, senderIP, seq, t) ==
    IF senderIP = myIP THEN list
    ELSE createNeighbor(list, senderIP, seq, t)

\* A processHELLO that treats the node's own address like any other sender.
processHELLO_NoSelfCheck(list, myIP, senderIP, seq, t) ==
    LET n == findNeighbor(list, senderIP)
    IN  IF n = 0 THEN createNeighbor(list, senderIP, seq, t)
        ELSE [list EXCEPT ![n].lastSeq = IF seq > @ THEN seq ELSE @,
                          ![n].lastHeard = t]

\* A processHELLO that stores the seq of every HELLO it accepts.
processHELLO_Overwrite(list, myIP, senderIP, seq, t) ==
    IF senderIP = myIP THEN list
    ELSE LET n == findNeighbor(list, senderIP)
         IN  IF n = 0 THEN createNeighbor(list, senderIP, seq, t)
             ELSE [list EXCEPT ![n].lastSeq = seq, ![n].lastHeard = t]

\* processHELLO(senderIP, seq) at clock value t, with g_myIP = myIP.
processHELLO(list, myIP, senderIP, seq, t) ==
    IF senderIP = myIP THEN list
    ELSE LET n == findNeighbor(list, senderIP)
         IN  IF n = 0 THEN createNeighbor(list, senderIP, seq, t)
             ELSE [list EXCEPT ![n].lastSeq = IF seq > @ THEN seq ELSE @,
                               ![n].lastHeard = t]

(***************************************************************************)
(* main.c: parseMessage's dispatch of one datagram.                        *)
(***************************************************************************)
\* recvfrom(g_sock, buffer, sizeof(buffer)-1, ...): a longer datagram is cut.
RecvBuffer(datagram) == StrNCpy(datagram, PM_BUF_LEN - 1)

\* parseMessage: kind is "HELLO", "DV" or "drop".
parseMessage(msg) ==
    LET buf     == StrNCpy(msg, PM_BUF_LEN - 1)
        ipTok   == StrTok(buf, 1)
        typeTok == StrTok(buf, ipTok.next)
        seqTok  == StrTok(buf, typeTok.next)
    IN  IF ~ipTok.found \/ ~typeTok.found THEN [kind |-> "drop"]
        ELSE IF typeTok.tok = "HELLO"
        THEN IF ~seqTok.found THEN [kind |-> "drop"]
             ELSE [kind |-> "HELLO", ip |-> ipTok.tok,
                   seq |-> Atoi(seqTok.tok) % USHORT_RANGE]
        ELSE IF typeTok.tok = "DV" THEN [kind |-> "DV"]
        ELSE [kind |-> "drop"]


\* The receiver's locals before a datagram is read.
NoMsg == [kind |-> "drop"]
NoDV  == [valid |-> FALSE, senderIP |-> "", toks |-> <<>>]

(***************************************************************************)
(* State.                                                                  *)
(***************************************************************************)
VARIABLES
    \* distance.c and neighbor.c globals
    g_routes,          \* the route list
    updatedDV,         \* the dirty flag
    g_neighborsHead,   \* the neighbor list
    now,               \* the clock nowInSeconds() reads
    \* main.c
    g_running,         \* main.c's g_running
    g_sock,            \* "open" or "closed" (-1)
    mpc,               \* main's position
    spc,               \* SenderThread's position ("none": not created)
    rpc,               \* ReceiverThread's position ("none": not created)
    s_i,               \* SenderThread's nap counter i
    s_dv,              \* broadcastDV's dvStr ("" when not allocated)
    r_msg,             \* parseMessage's reading of ReceiverThread's buffer
    r_dv,              \* processDistanceVector's reading of the buffer
    r_toks,            \* the tokens ahead of processDistanceVector's saveptr
    r_changed,         \* processDistanceVector's changed
    nbrFreed,          \* neighborStop has freed the neighbor list
    routesFreed,       \* distanceCleanup has freed the route list
    \* history of the DV broadcasts
    chgSinceSnap,      \* a route was created or changed since dvStr was serialized
    unsentChange,      \* a route was created or changed since the serialization of
                       \* the last successfully broadcast DV (since the start, before
                       \* the first one)
    dvFate,            \* the most recently broadcast DV datagram: "none", "flight",
                       \* "delivered", "lost", or "stale" (lost, and a route was
                       \* created or changed since)
    sendsSinceUpdate,  \* successful DV broadcasts since the last dvUpdate
    \* direct calls of the distance functions
    dv_last,           \* the last call: "none", "process", "sent", "roundtrip"
    dv_msg,            \* the payload of the last processDistanceVector call
    dv_prevRoutes,     \* the route list before the last call
    dv_prevFlag,       \* updatedDV before the last call
    dv_changed,        \* the value of changed in the last call
    dv_repeat,         \* the last call repeated the payload of the call before it
    peerRoutes,        \* the route list of the node that receives the emitted DV
    \* a network of daemons
    netRoutes, netFlag, netNbr, netSeq, netInbox,
    \* history of SenderThread's current pass
    s_tick,            \* the calls of the pass so far: "hello", "stale", "dv"
    s_seen,            \* the value of updatedDV the pass read
    s_fail,            \* the last broadcastDV did not send, and none has since
    \* the neighbor table with the sweep taken step by step
    sw_pc,             \* removeStaleNeighbors: "idle", "lock" (now read), "ret"
    sw_now,            \* removeStaleNeighbors' local now
    nb_last,           \* the last table operation: "none", "hello", "sweep"
    nb_prev,           \* the neighbor list before the last table operation
    nb_arg,            \* the (senderIP, seq) of the last processHELLO
    nb_at,             \* the clock value during the last table operation
    \* the socket as the kernel sees it
    sockDead,          \* TRUE once every recvfrom on g_sock fails
    \* a peer's HELLO sender (neighbor.c: HelloSenderThread)
    h_seq,             \* its local seq
    h_fires,           \* the passes of its loop so far
    h_built,           \* the message its last pass built
    h_prevBuilt,       \* the message the pass before built
    h_air              \* the HELLO on the wire, "" when there is none

tableVars == <<g_routes, updatedDV, g_neighborsHead, now>>
mainVars  == <<g_running, g_sock, mpc, nbrFreed, routesFreed>>
sendVars  == <<spc, s_i, s_dv>>
recvLocals == <<r_msg, r_dv, r_toks, r_changed>>
recvVars  == <<rpc, r_msg, r_dv, r_toks, r_changed>>
histVars  == <<chgSinceSnap, unsentChange, dvFate, sendsSinceUpdate>>
dvVars    == <<dv_last, dv_msg, dv_prevRoutes, dv_prevFlag, dv_changed,
               dv_repeat, peerRoutes>>
netVars   == <<netRoutes, netFlag, netNbr, netSeq, netInbox>>
tickVars  == <<s_tick, s_seen, s_fail>>
sweepVars == <<sw_pc, sw_now, nb_last, nb_prev, nb_arg, nb_at>>
sockVars  == <<sockDead>>
helloVars == <<h_seq, h_fires, h_built, h_prevBuilt, h_air>>
vars      == <<tableVars, mainVars, sendVars, recvVars, histVars, dvVars, netVars,
               tickVars, sweepVars, sockVars, helloVars>>

(***************************************************************************)
(* Initial values of each group.                                           *)
(***************************************************************************)
TableInit ==
    /\ g_routes = <<>>
    /\ updatedDV = FALSE
    /\ g_neighborsHead = <<>>
    /\ now = 0

\* main after neighborInit returned 0; no thread created yet.
ReactorInit ==
    /\ g_running = TRUE
    /\ g_sock = "open"
    /\ mpc = "create_s"
    /\ spc = "none"
    /\ rpc = "none"
    /\ s_i = 0
    /\ s_dv = ""
    /\ r_msg = NoMsg
    /\ r_dv = NoDV
    /\ r_toks = <<>>
    /\ r_changed = FALSE
    /\ nbrFreed = FALSE
    /\ routesFreed = FALSE
    /\ chgSinceSnap = FALSE
    /\ unsentChange = FALSE
    /\ dvFate = "none"
    /\ sendsSinceUpdate = 0

\* The reactor is not started.
ReactorOff ==
    /\ g_running = TRUE
    /\ g_sock = "open"
    /\ mpc = "off"
    /\ spc = "none"
    /\ rpc = "none"
    /\ s_i = 0
    /\ s_dv = ""
    /\ r_msg = NoMsg
    /\ r_dv = NoDV
    /\ r_toks = <<>>
    /\ r_changed = FALSE
    /\ nbrFreed = FALSE
    /\ routesFreed = FALSE
    /\ chgSinceSnap = FALSE
    /\ unsentChange = FALSE
    /\ dvFate = "none"
    /\ sendsSinceUpdate = 0

\* No network of daemons is running.
NetIdle ==
    /\ netRoutes = <<>>
    /\ netFlag = <<>>
    /\ netNbr = <<>>
    /\ netSeq = <<>>
    /\ netInbox = <<>>

\* No pass of SenderThread has begun.
TickInit ==
    /\ s_tick = <<>>
    /\ s_seen = FALSE
    /\ s_fail = FALSE

NoHello == [ip |-> "", seq |-> 0]

\* The socket works.
SockInit == sockDead = FALSE

\* No peer's HELLO sender is modelled.
HelloOff ==
    /\ h_seq = 0
    /\ h_fires = 0
    /\ h_built = ""
    /\ h_prevBuilt = ""
    /\ h_air = ""

\* No sweep is under way and no table operation has been made.
SweepIdle ==
    /\ sw_pc = "idle"
    /\ sw_now = 0
    /\ nb_last = "none"
    /\ nb_prev = <<>>
    /\ nb_arg = NoHello
    /\ nb_at = 0

DvInit ==
    /\ dv_last = "none"
    /\ dv_msg = ""
    /\ dv_prevRoutes = <<>>
    /\ dv_prevFlag = FALSE
    /\ dv_changed = FALSE
    /\ dv_repeat = FALSE
    /\ peerRoutes = <<>>

(***************************************************************************)
(* main.c: main, from the first pthread_create.                            *)
(***************************************************************************)
\* pthread_create(&sThread, ..): the thread starts, or the call fails and main
\* goes to neighborStop and returns 1.
MainCreateSender ==
    /\ mpc = "create_s"
    /\ \/ /\ spc' = "loop"
          /\ mpc' = "create_r"
       \/ /\ spc' = spc
          /\ mpc' = "fail_stop"
    /\ UNCHANGED <<tableVars, g_running, g_sock, nbrFreed, routesFreed,
                   s_i, s_dv, recvVars, histVars, dvVars, netVars,
                   tickVars, sweepVars,
                   sockVars, helloVars>>

\* pthread_create(&rThread, ..): on failure g_running = 0, neighborStop, return 1.
MainCreateReceiver ==
    /\ mpc = "create_r"
    /\ \/ /\ rpc' = "loop"
          /\ mpc' = "getchar"
          /\ g_running' = g_running
       \/ /\ rpc' = rpc
          /\ mpc' = "fail_stop"
          /\ g_running' = FALSE
    /\ UNCHANGED <<tableVars, g_sock, nbrFreed, routesFreed, sendVars,
                   r_msg, r_dv, r_toks, r_changed, histVars, dvVars, netVars,
                   tickVars, sweepVars,
                   sockVars, helloVars>>

\* getchar() returns (the user hits ENTER); g_running = 0.
MainEnter ==
    /\ mpc = "getchar"
    /\ g_running' = FALSE
    /\ mpc' = "join_s"
    /\ UNCHANGED <<tableVars, g_sock, nbrFreed, routesFreed, sendVars,
                   recvVars, histVars, dvVars, netVars,
                   tickVars, sweepVars,
                   sockVars, helloVars>>

\* pthread_join(sThread) returns once SenderThread has returned.
MainJoinSender ==
    /\ mpc = "join_s"
    /\ spc = "done"
    /\ mpc' = "join_r"
    /\ UNCHANGED <<tableVars, g_running, g_sock, nbrFreed, routesFreed,
                   sendVars, recvVars, histVars, dvVars, netVars,
                   tickVars, sweepVars,
                   sockVars, helloVars>>

\* pthread_join(rThread) returns once ReceiverThread has returned.
MainJoinReceiver ==
    /\ mpc = "join_r"
    /\ rpc = "done"
    /\ mpc' = "stop"
    /\ UNCHANGED <<tableVars, g_running, g_sock, nbrFreed, routesFreed,
                   sendVars, recvVars, histVars, dvVars, netVars,
                   tickVars, sweepVars,
                   sockVars, helloVars>>

\* neighborStop: after its usleep, closes the socket and frees the neighbor
\* list. Called after the joins ("stop") and on both failure paths ("fail_stop").
MainNeighborStop ==
    /\ mpc \in {"stop", "fail_stop"}
    /\ g_sock' = "closed"
    /\ g_neighborsHead' = <<>>
    /\ nbrFreed' = TRUE
    /\ mpc' = IF mpc = "stop" THEN "cleanup" ELSE "return"
    /\ UNCHANGED <<g_routes, updatedDV, now, g_running, routesFreed,
                   sendVars, recvVars, histVars, dvVars, netVars,
                   tickVars, sweepVars,
                   sockVars, helloVars>>

\* distanceCleanup frees the route list.
MainDistanceCleanup ==
    /\ mpc = "cleanup"
    /\ g_routes' = <<>>
    /\ routesFreed' = TRUE
    /\ mpc' = "return"
    /\ UNCHANGED <<updatedDV, g_neighborsHead, now, g_running, g_sock, nbrFreed,
                   sendVars, recvVars, histVars, dvVars, netVars,
                   tickVars, sweepVars,
                   sockVars, helloVars>>

\* main returns: the process exits and every thread still running ends with it.
MainReturn ==
    /\ mpc = "return"
    /\ mpc' = "done"
    /\ spc' = IF spc = "none" THEN "none" ELSE "done"
    /\ rpc' = IF rpc = "none" THEN "none" ELSE "done"
    /\ UNCHANGED <<tableVars, g_running, g_sock, nbrFreed, routesFreed,
                   s_i, s_dv, r_msg, r_dv, r_toks, r_changed,
                   histVars, dvVars, netVars,
                   tickVars, sweepVars,
                   sockVars, helloVars>>

MainStep ==
    \/ MainCreateSender
    \/ MainCreateReceiver
    \/ MainJoinSender
    \/ MainJoinReceiver
    \/ MainNeighborStop
    \/ MainDistanceCleanup
    \/ MainReturn

(***************************************************************************)
(* main.c: SenderThread and broadcastDV.                                   *)
(***************************************************************************)
\* while (g_running)
SenderLoop ==
    /\ spc = "loop"
    /\ spc' = IF g_running THEN "hello" ELSE "done"
    /\ s_tick' = IF g_running THEN <<>> ELSE s_tick
    /\ s_seen' = IF g_running THEN FALSE ELSE s_seen
    /\ UNCHANGED <<tableVars, mainVars, s_i, s_dv, recvVars, histVars,
                   dvVars, netVars, s_fail, sweepVars,
                   sockVars, helloVars>>

\* A tick that goes from the HELLO straight to the flag test.
SenderHello_SkipStale ==
    /\ spc = "hello"
    /\ spc' = "flag"
    /\ s_tick' = Append(s_tick, "hello")
    /\ UNCHANGED <<tableVars, mainVars, s_i, s_dv, recvVars, histVars,
                   dvVars, netVars, s_seen, s_fail, sweepVars,
                   sockVars, helloVars>>

\* neighborSendHELLO(): broadcasts a HELLO; it touches no table.
SenderHello ==
    /\ spc = "hello"
    /\ spc' = "stale"
    /\ s_tick' = Append(s_tick, "hello")
    /\ UNCHANGED <<tableVars, mainVars, s_i, s_dv, recvVars, histVars,
                   dvVars, netVars, s_seen, s_fail, sweepVars,
                   sockVars, helloVars>>

\* neighborRemoveStale()
SenderRemoveStale ==
    /\ spc = "stale"
    /\ g_neighborsHead' = removeStaleNeighbors(g_neighborsHead, now)
    /\ spc' = "flag"
    /\ s_tick' = Append(s_tick, "stale")
    /\ UNCHANGED <<g_routes, updatedDV, now, mainVars, s_i, s_dv,
                   recvVars, histVars, dvVars, netVars, s_seen, s_fail,
                   sweepVars,
                   sockVars, helloVars>>

\* A SenderThread that broadcasts the DV on every tick, whatever the flag.
SenderCheckFlag_Reflood ==
    /\ spc = "flag"
    /\ spc' = "getdv"
    /\ s_i' = s_i
    /\ s_seen' = updatedDV
    /\ s_tick' = Append(s_tick, "dv")
    /\ UNCHANGED <<tableVars, mainVars, s_dv, recvVars, histVars,
                   dvVars, netVars, s_fail, sweepVars,
                   sockVars, helloVars>>

\* if (updatedDV) broadcastDV(); otherwise on to the nap with i = 0.
SenderCheckFlag ==
    /\ spc = "flag"
    /\ s_seen' = updatedDV
    /\ IF updatedDV
       THEN spc' = "getdv" /\ s_i' = s_i /\ s_tick' = Append(s_tick, "dv")
       ELSE spc' = "nap" /\ s_i' = 0 /\ s_tick' = s_tick
    /\ UNCHANGED <<tableVars, mainVars, s_dv, recvVars, histVars,
                   dvVars, netVars, s_fail, sweepVars,
                   sockVars, helloVars>>

\* broadcastDV: dvStr = getDistanceVector(); if (!dvStr) return (calloc gave
\* NULL); if (g_sock < 0) free and return.
SenderGetDV ==
    /\ spc = "getdv"
    /\ \/ /\ g_sock = "open"
          /\ spc' = "sendto"
          /\ s_i' = s_i
          /\ s_dv' = getDistanceVector(g_routes)
          /\ chgSinceSnap' = FALSE
          /\ s_fail' = s_fail
       \/ /\ spc' = "nap"
          /\ s_i' = 0
          /\ s_dv' = ""
          /\ chgSinceSnap' = chgSinceSnap
          /\ s_fail' = TRUE
    /\ UNCHANGED <<tableVars, mainVars, recvVars, unsentChange, dvFate,
                   sendsSinceUpdate, dvVars, netVars, s_tick, s_seen,
                   sweepVars,
                   sockVars, helloVars>>

\* A broadcastDV that calls dvSent() after a failed sendto as well.
SenderSendTo_ClearOnFail ==
    /\ spc = "sendto"
    /\ \/ /\ g_sock = "open"
          /\ spc' = "dvsent"
          /\ s_i' = s_i
          /\ s_dv' = s_dv
          /\ dvFate' = "flight"
          /\ unsentChange' = chgSinceSnap
          /\ sendsSinceUpdate' = IF sendsSinceUpdate < 2
                                 THEN sendsSinceUpdate + 1 ELSE sendsSinceUpdate
          /\ s_tick' = Append(s_tick, "sent")
          /\ s_fail' = FALSE
       \/ /\ spc' = "dvsent"
          /\ s_i' = s_i
          /\ s_dv' = s_dv
          /\ s_tick' = s_tick
          /\ s_fail' = TRUE
          /\ UNCHANGED <<dvFate, unsentChange, sendsSinceUpdate>>
    /\ UNCHANGED <<tableVars, mainVars, recvVars, chgSinceSnap, dvVars, netVars,
                   s_seen, sweepVars,
                   sockVars, helloVars>>

\* broadcastDV: sendto succeeds (the datagram is on the wire) or fails (sent < 0:
\* dvStr is freed, the flag is left as it is).
SenderSendTo ==
    /\ spc = "sendto"
    /\ \/ /\ g_sock = "open"
          /\ spc' = "dvsent"
          /\ s_i' = s_i
          /\ s_dv' = s_dv
          /\ dvFate' = "flight"
          /\ unsentChange' = chgSinceSnap
          /\ sendsSinceUpdate' = IF sendsSinceUpdate < 2
                                 THEN sendsSinceUpdate + 1 ELSE sendsSinceUpdate
          /\ s_tick' = Append(s_tick, "sent")
          /\ s_fail' = FALSE
       \/ /\ spc' = "nap"
          /\ s_i' = 0
          /\ s_dv' = ""
          /\ s_tick' = s_tick
          /\ s_fail' = TRUE
          /\ UNCHANGED <<dvFate, unsentChange, sendsSinceUpdate>>
    /\ UNCHANGED <<tableVars, mainVars, recvVars, chgSinceSnap, dvVars, netVars,
                   s_seen, sweepVars,
                   sockVars, helloVars>>

\* broadcastDV: dvSent() clears updatedDV; dvStr is freed.
SenderDvSent ==
    /\ spc = "dvsent"
    /\ updatedDV' = FALSE
    /\ spc' = "nap"
    /\ s_i' = 0
    /\ s_dv' = ""
    /\ UNCHANGED <<g_routes, g_neighborsHead, now, mainVars, recvVars,
                   histVars, dvVars, netVars,
                   tickVars, sweepVars,
                   sockVars, helloVars>>

\* for (i = 0; i < HELLO_INTERVAL_SEC; i++) { if (!g_running) break; sleep(1); }
\* The clock stands still in Spec; NbrSpec and NetSpec move it.
SenderNap ==
    /\ spc = "nap"
    /\ IF s_i < HELLO_INTERVAL_SEC /\ g_running
       THEN s_i' = s_i + 1 /\ spc' = spc
       ELSE s_i' = 0 /\ spc' = "loop"
    /\ UNCHANGED <<tableVars, mainVars, s_dv, recvVars, histVars,
                   dvVars, netVars,
                   tickVars, sweepVars,
                   sockVars, helloVars>>

SenderStep ==
    \/ SenderLoop
    \/ SenderHello
    \/ SenderRemoveStale
    \/ SenderCheckFlag
    \/ SenderGetDV
    \/ SenderSendTo
    \/ SenderDvSent
    \/ SenderNap

(***************************************************************************)
(* main.c: ReceiverThread, parseMessage and, step by step, the body of     *)
(* processDistanceVector.                                                  *)
(***************************************************************************)
\* while (g_running) { memset(buffer, 0, ..)
ReceiverLoop ==
    /\ rpc = "loop"
    /\ rpc' = IF g_running THEN "recvfrom" ELSE "done"
    /\ r_msg' = NoMsg
    /\ r_dv' = NoDV
    /\ UNCHANGED <<tableVars, mainVars, sendVars, r_toks, r_changed,
                   histVars, dvVars, netVars,
                   tickVars, sweepVars,
                   sockVars, helloVars>>

\* recvfrom returns datagram m (it blocks until one arrives). What the thread
\* then reads off its own buffer touches no shared state and is taken here:
\* parseMessage's tokens and, for a DV, processDistanceVector's tokens.
ReceiverRecv(m) ==
    /\ rpc = "recvfrom"
    /\ g_sock = "open"
    /\ ~sockDead
    /\ r_msg' = parseMessage(RecvBuffer(m))
    /\ r_dv' = IF r_msg'.kind = "DV" THEN pdvRead(RecvBuffer(m)) ELSE NoDV
    /\ rpc' = "parse"
    /\ UNCHANGED <<tableVars, mainVars, sendVars, r_toks, r_changed,
                   histVars, dvVars, netVars,
                   tickVars, sweepVars,
                   sockVars, helloVars>>

\* recvfrom returns < 0: usleep(100000); continue.
ReceiverRecvError ==
    /\ rpc = "recvfrom"
    /\ rpc' = "loop"
    /\ UNCHANGED <<tableVars, mainVars, sendVars, recvLocals,
                   histVars, dvVars, netVars,
                   tickVars, sweepVars,
                   sockVars, helloVars>>

\* The branch on parseMessage's result: a HELLO goes to neighborProcessHELLO,
\* a DV enters processDistanceVector, anything else is dropped.
ReceiverParse ==
    /\ rpc = "parse"
    /\ IF r_msg.kind = "HELLO"
       THEN /\ g_neighborsHead' =
                   processHELLO(g_neighborsHead, StoredMyIP(MyIP),
                                r_msg.ip, r_msg.seq, now)
            /\ rpc' = "loop"
            /\ UNCHANGED <<r_toks, r_changed>>
       ELSE IF r_msg.kind = "DV" /\ r_dv.valid
       THEN /\ rpc' = "pdv"
            /\ r_toks' = r_dv.toks
            /\ r_changed' = FALSE
            /\ UNCHANGED g_neighborsHead
       ELSE /\ rpc' = "loop"
            /\ UNCHANGED <<g_neighborsHead, r_toks, r_changed>>
    /\ UNCHANGED <<g_routes, updatedDV, now, mainVars, sendVars, r_msg, r_dv,
                   histVars, dvVars, netVars,
                   tickVars, sweepVars,
                   sockVars, helloVars>>

\* One pass of processDistanceVector's while loop; after the last token,
\* if (changed) dvUpdate().
ReceiverPdvStep ==
    /\ rpc = "pdv"
    /\ IF r_toks = <<>>
       THEN /\ rpc' = IF r_changed THEN "dvupdate" ELSE "loop"
            /\ UNCHANGED <<g_routes, r_toks, r_changed, chgSinceSnap,
                           unsentChange, dvFate>>
       ELSE LET one == pdvApply(g_routes, r_dv.senderIP, Head(r_toks))
            IN  /\ g_routes' = one.routes
                /\ r_changed' = (r_changed \/ one.changed)
                /\ r_toks' = Tail(r_toks)
                /\ rpc' = rpc
                /\ chgSinceSnap' = (chgSinceSnap \/ one.changed)
                /\ unsentChange' = (unsentChange \/ one.changed)
                /\ dvFate' = IF one.changed /\ dvFate = "lost"
                             THEN "stale" ELSE dvFate
    /\ UNCHANGED <<updatedDV, g_neighborsHead, now, mainVars, sendVars, r_msg,
                   r_dv, sendsSinceUpdate, dvVars, netVars,
                   tickVars, sweepVars,
                   sockVars, helloVars>>

\* dvUpdate(): updatedDV = 1.
ReceiverDvUpdate ==
    /\ rpc = "dvupdate"
    /\ updatedDV' = TRUE
    /\ sendsSinceUpdate' = 0
    /\ rpc' = "loop"
    /\ UNCHANGED <<g_routes, g_neighborsHead, now, mainVars, sendVars,
                   recvLocals, chgSinceSnap, unsentChange,
                   dvFate, dvVars, netVars,
                   tickVars, sweepVars,
                   sockVars, helloVars>>

\* The steps ReceiverThread takes on its own (recvfrom waits for the network).
ReceiverStep ==
    \/ ReceiverLoop
    \/ ReceiverParse
    \/ ReceiverPdvStep
    \/ ReceiverDvUpdate

(***************************************************************************)
(* The network around the node: UDP delivers or loses the broadcast DV.    *)
(***************************************************************************)
WireDeliver ==
    /\ dvFate = "flight"
    /\ dvFate' = "delivered"
    /\ UNCHANGED <<tableVars, mainVars, sendVars, recvVars, chgSinceSnap,
                   unsentChange, sendsSinceUpdate, dvVars, netVars,
                   tickVars, sweepVars,
                   sockVars, helloVars>>

WireLose ==
    /\ dvFate = "flight"
    /\ dvFate' = "lost"
    /\ UNCHANGED <<tableVars, mainVars, sendVars, recvVars, chgSinceSnap,
                   unsentChange, sendsSinceUpdate, dvVars, netVars,
                   tickVars, sweepVars,
                   sockVars, helloVars>>

(***************************************************************************)
(* Datagrams the network hands to the node.                                *)
(***************************************************************************)
DV_A    == "10.0.0.2:DV:(10.0.0.3,0):(10.0.0.4,2):"
DV_B    == "10.0.0.2:DV:(10.0.0.3,5):"
DV_Self == "10.0.0.1:DV:(10.0.0.9,0):"
DV_Dup  == "10.0.0.2:DV:(10.0.0.5,1):(10.0.0.5,2):"
HELLO_A == "10.0.0.2:HELLO:7"

\* An address string of IP_STR_LEN characters, one more than a table stores.
LongIP  == "10.0.0.2" \o "-aaaaaaaaaaaaaaaaaaaaaaa"
DV_Long == "10.0.0.2:DV:(" \o LongIP \o ",1):"
Junk    == "10.0.0.2:BYE"

Datagrams == {DV_A, DV_B, HELLO_A, Junk}

(***************************************************************************)
(* Spec: one daemon, its three threads interleaved statement by statement. *)
(***************************************************************************)
Init == TableInit /\ ReactorInit /\ DvInit /\ TickInit /\ SweepIdle /\ SockInit /\ HelloOff /\ NetIdle

Next ==
    \/ MainStep
    \/ MainEnter
    \/ SenderStep
    \/ ReceiverStep
    \/ \E m \in Datagrams : ReceiverRecv(m)
    \/ ReceiverRecvError
    \/ WireDeliver
    \/ WireLose

Spec == Init /\ [][Next]_vars

\* The datagrams of the runs checked for progress.
FairDatagrams == {DV_A, DV_B}

FairNext ==
    \/ MainStep
    \/ MainEnter
    \/ SenderStep
    \/ ReceiverStep
    \/ \E m \in FairDatagrams : ReceiverRecv(m)
    \/ ReceiverRecvError
    \/ WireDeliver
    \/ WireLose

\* FairSpec: every thread that can take a step of its own eventually takes it.
\* Nothing is assumed of the user (ENTER), of the arrival of datagrams, of
\* receive errors, or of the fate of a datagram on the wire.
FairSpec ==
    /\ Init
    /\ [][FairNext]_vars
    /\ WF_vars(MainStep)
    /\ WF_vars(SenderStep)
    /\ WF_vars(ReceiverStep)

(***************************************************************************)
(* Claims on the reactor.                                                  *)
(***************************************************************************)
InProcessDV == rpc \in {"pdv", "dvupdate"}
ThreadsEnded == spc \in {"none", "done"} /\ rpc \in {"none", "done"}

\* C2: the receive task is never inside processDistanceVector while the
\* periodic task is reading updatedDV, serializing the DV or clearing the flag.
C2_MutualExclusion ==
    ~(InProcessDV /\ spc \in {"flag", "getdv", "dvsent"})

\* C3: with both tasks outside DV ingestion, if updatedDV is false then no
\* route was created or changed since the serialization of the most recently
\* successfully broadcast DV.
C3_NoLostChange ==
    (~updatedDV /\ ~InProcessDV /\ ~routesFreed) => ~unsentChange

\* C5: once g_running is false, both tasks exit, the joins complete and main
\* reaches the teardown (neighborStop frees the neighbor table).
C5_ShutdownTerminates == (~g_running) ~> nbrFreed

\* C6: a table is freed only after every task has terminated.
C6_TeardownAfterTasks == (nbrFreed \/ routesFreed) => ThreadsEnded

\* C9 as claimed: after a DV datagram was lost, and while no route is created
\* or changed, a DV is broadcast again (or the daemon is shut down).
C9_LossCompensated ==
    (dvFate = "lost") ~> (dvFate \in {"flight", "delivered", "stale"} \/ ~g_running)

\* C9 as amended: DVs are not reflooded periodically; between two successful
\* DV broadcasts there is a dvUpdate, so a lost DV is sent again only after a
\* later ingestion sets the flag.
C9_NoReflood == sendsSinceUpdate <= 1

\* A DV was broadcast and lost, no route changed since, and the periodic task
\* of a later tick finds the flag clear: that tick sends a HELLO only.
C9_Witness ==
    /\ dvFate = "lost"
    /\ spc = "flag"
    /\ ~updatedDV
    /\ g_running
    /\ sendsSinceUpdate = 1

\* C17: a broadcastDV call that ends without a successful sendto leaves
\* updatedDV set; the next tick that reaches the flag test calls broadcastDV
\* again; and updatedDV goes from set to clear only in dvSent() after a sendto
\* of the same tick succeeded.
C17_FailedSendKeepsFlag ==
    /\ [](s_fail => updatedDV)
    /\ [][(s_fail /\ spc = "flag" /\ spc' # "flag") => spc' = "getdv"]_vars
    /\ [][(updatedDV /\ ~updatedDV') =>
              /\ spc = "dvsent"
              /\ ~s_fail
              /\ s_tick = <<"hello", "stale", "dv", "sent">>]_vars

\* The tick after a failed broadcast is inside broadcastDV again.
C17_Witness ==
    /\ s_fail
    /\ spc = "getdv"
    /\ updatedDV
    /\ g_sock = "open"

\* The calls of one tick of SenderThread, in order; "dv" is the call of
\* broadcastDV and "sent" its successful sendto.
TickOrder == <<"hello", "stale", "dv", "sent">>
HelloOnly == <<"hello", "stale">>
\* The sender is past the tick's last call (a tick that the exit of the process
\* cuts short never gets here).
TickOver == spc \in {"nap", "loop"} /\ s_tick # <<>>

\* C18: every tick calls neighborSendHELLO, then neighborRemoveStale, then
\* broadcastDV if and only if updatedDV was set when the tick tested it (a DV
\* goes on the wire only in such a tick); and a tick that follows a successful
\* broadcast with no dvUpdate() since sends the HELLO only.
C18_TickGated ==
    /\ Len(s_tick) <= Len(TickOrder)
    /\ s_tick = SubSeq(TickOrder, 1, Len(s_tick))
    /\ spc = "stale" => s_tick = <<"hello">>
    /\ spc = "flag" => s_tick = HelloOnly
    /\ spc \in {"getdv", "sendto"} => s_seen /\ s_tick = SubSeq(TickOrder, 1, 3)
    /\ spc = "dvsent" => s_seen /\ s_tick = TickOrder
    /\ TickOver => IF s_seen THEN Len(s_tick) >= 3 ELSE s_tick = HelloOnly
    /\ (TickOver /\ sendsSinceUpdate >= 1 /\ Len(s_tick) < 4) =>
           s_tick = HelloOnly

\* A tick that began after a successful broadcast, with no dvUpdate() since,
\* is over and sent the HELLO only.
C18_Witness ==
    /\ spc = "nap"
    /\ sendsSinceUpdate = 1
    /\ ~s_seen
    /\ s_tick = HelloOnly
    /\ g_routes # <<>>

(***************************************************************************)
(* SockSpec: FairSpec with a socket that can fail for good.                *)
(***************************************************************************)
\* From here on every recvfrom on g_sock returns -1 at once.
SockFail ==
    /\ ~sockDead
    /\ g_sock = "open"
    /\ rpc # "none"
    /\ sockDead' = TRUE
    /\ UNCHANGED <<tableVars, mainVars, sendVars, recvVars, histVars, dvVars,
                   netVars, tickVars, sweepVars, helloVars>>

\* recvfrom on the dead socket: bytes < 0, usleep(100000); continue.
ReceiverRecvDead ==
    /\ rpc = "recvfrom"
    /\ sockDead
    /\ rpc' = "loop"
    /\ UNCHANGED <<tableVars, mainVars, sendVars, recvLocals,
                   histVars, dvVars, netVars, tickVars, sweepVars,
                   sockVars, helloVars>>

SockNext ==
    \/ FairNext
    \/ SockFail
    \/ ReceiverRecvDead

\* On the dead socket recvfrom does not block, so the step after it is the
\* thread's own.
SockSpec ==
    /\ Init
    /\ [][SockNext]_vars
    /\ WF_vars(MainStep)
    /\ WF_vars(SenderStep)
    /\ WF_vars(ReceiverStep)
    /\ WF_vars(ReceiverRecvDead)

\* C21 (as stated): once the socket has failed for good, ReceiverThread ends,
\* whether or not g_running is cleared.
C21_DeadSocketEnds == sockDead ~> (rpc = "done")

(***************************************************************************)
(* DvSpec: the interface of distance.c called sequentially, one call per   *)
(* step, and the DV of this node handed to a peer.                         *)
(***************************************************************************)
MaxRoutes == 4

DvDatagrams == {DV_A, DV_Self, DV_Dup, DV_Long, Junk}

\* A processDistanceVector(m) that never calls dvUpdate().
DvProcess_NoUpdate(m) ==
    LET res == processDistanceVector(g_routes, m)
    IN  /\ Len(res.routes) <= MaxRoutes
        /\ g_routes' = res.routes
        /\ dv_last' = "process"
        /\ dv_msg' = m
        /\ dv_prevRoutes' = g_routes
        /\ dv_prevFlag' = updatedDV
        /\ dv_changed' = res.changed
        /\ dv_repeat' = (dv_last = "process" /\ dv_msg = m)
        /\ UNCHANGED <<updatedDV, g_neighborsHead, now, mainVars, sendVars,
                       recvVars, histVars, peerRoutes, netVars,
                       tickVars, sweepVars,
                   sockVars, helloVars>>

\* processDistanceVector(m), with dvUpdate() when changed.
DvProcess(m) ==
    LET res == processDistanceVector(g_routes, m)
    IN  /\ Len(res.routes) <= MaxRoutes
        /\ g_routes' = res.routes
        /\ updatedDV' = (updatedDV \/ res.changed)
        /\ dv_last' = "process"
        /\ dv_msg' = m
        /\ dv_prevRoutes' = g_routes
        /\ dv_prevFlag' = updatedDV
        /\ dv_changed' = res.changed
        /\ dv_repeat' = (dv_last = "process" /\ dv_msg = m)
        /\ UNCHANGED <<g_neighborsHead, now, mainVars, sendVars, recvVars,
                       histVars, peerRoutes, netVars,
                   tickVars, sweepVars,
                   sockVars, helloVars>>

\* dvSent(): updatedDV = 0.
DvDvSent ==
    /\ updatedDV
    /\ updatedDV' = FALSE
    /\ dv_last' = "sent"
    /\ dv_prevRoutes' = g_routes
    /\ dv_prevFlag' = updatedDV
    /\ dv_changed' = FALSE
    /\ dv_repeat' = FALSE
    /\ UNCHANGED <<g_routes, g_neighborsHead, now, mainVars, sendVars,
                   recvVars, histVars, dv_msg, peerRoutes, netVars,
                   tickVars, sweepVars,
                   sockVars, helloVars>>

\* s = getDistanceVector() on this node; a peer that holds no route yet calls
\* processDistanceVector(s).
DvRoundTrip ==
    /\ dv_last # "roundtrip"
    /\ dv_msg' = getDistanceVector(g_routes)
    /\ peerRoutes' = processDistanceVector(<<>>, dv_msg').routes
    /\ dv_last' = "roundtrip"
    /\ dv_prevRoutes' = g_routes
    /\ dv_prevFlag' = updatedDV
    /\ dv_changed' = FALSE
    /\ dv_repeat' = FALSE
    /\ UNCHANGED <<tableVars, mainVars, sendVars, recvVars, histVars, netVars,
                   tickVars, sweepVars,
                   sockVars, helloVars>>

DvInitState == TableInit /\ ReactorOff /\ DvInit /\ TickInit /\ SweepIdle /\ SockInit /\ HelloOff /\ NetIdle

DvNext ==
    \/ \E m \in DvDatagrams : DvProcess(m)
    \/ DvDvSent
    \/ DvRoundTrip

DvSpec == DvInitState /\ [][DvNext]_vars

\* The destinations of a route list.
Dests(routes) == {routes[k].destIP : k \in 1..Len(routes)}

\* C4: a DV whose sender is the node's own IP changes neither the route table
\* nor updatedDV.
C4_SelfLoopRejected ==
    (dv_last = "process" /\ pdvHeader(dv_msg).senderIP = MyIP)
        => (g_routes = dv_prevRoutes /\ updatedDV = dv_prevFlag)

\* C7: a processDistanceVector call that repeats the payload of the call just
\* before it leaves the table as it was and computes changed = false.
C7_Idempotent ==
    (dv_last = "process" /\ dv_repeat)
        => (g_routes = dv_prevRoutes /\ ~dv_changed)

\* C8: the peer that processed this node's DV holds, for every destination of
\* the DV, a route via this node's IP at this node's best distance plus one.
C8_RoundTrip ==
    dv_last = "roundtrip" =>
        \A dest \in Dests(g_routes) :
            \E k \in 1..Len(peerRoutes) :
                /\ peerRoutes[k].destIP = dest
                /\ peerRoutes[k].viaNeighbor = MyIP
                /\ peerRoutes[k].distance = findBestDistance(g_routes, dest) + 1

\* C11: no two entries of the route table have the same stored (dest, via).
C11_UniqueRoute ==
    \A a, b \in 1..Len(g_routes) :
        a # b => \/ g_routes[a].destIP # g_routes[b].destIP
                 \/ g_routes[a].viaNeighbor # g_routes[b].viaNeighbor

\* C16: when a processDistanceVector call that created a route or changed a
\* distance returns, updatedDV is set; a call that created and changed nothing
\* leaves updatedDV (and the table) as it found them; and after dvSent(), which
\* broadcastDV calls after a successful send, updatedDV is clear.
C16_FlagFollowsChange ==
    /\ dv_last = "process" =>
           /\ (dv_changed \/ g_routes # dv_prevRoutes) => updatedDV
           /\ ~dv_changed => /\ updatedDV = dv_prevFlag
                             /\ g_routes = dv_prevRoutes
    /\ dv_last = "sent" => ~updatedDV

\* A call found the flag clear, changed the table and returned with it set.
C16_Witness ==
    /\ dv_last = "process"
    /\ dv_changed
    /\ g_routes # dv_prevRoutes
    /\ ~dv_prevFlag
    /\ updatedDV

(***************************************************************************)
(* NbrSpec: the neighbor table under HELLOs, sweeps and the passing of     *)
(* time.                                                                   *)
(***************************************************************************)
MaxNeighbors == 3
MaxTime == 16

NbrSenders == {"10.0.0.2", MyIP, LongIP}
NbrSeqs == {1, 2}
NbrSteps == {HELLO_INTERVAL_SEC, NEIGHBOR_TIMEOUT_SEC + 1}

\* processHELLO(senderIP, seq) at the current clock value.
NbrHello(senderIP, seq) ==
    /\ g_neighborsHead' =
           processHELLO(g_neighborsHead, StoredMyIP(MyIP), senderIP, seq, now)
    /\ Len(g_neighborsHead') <= MaxNeighbors
    /\ UNCHANGED <<g_routes, updatedDV, now, mainVars, sendVars, recvVars,
                   histVars, dvVars, netVars,
                   tickVars, sweepVars,
                   sockVars, helloVars>>

\* removeStaleNeighbors().
NbrSweep ==
    /\ g_neighborsHead' = removeStaleNeighbors(g_neighborsHead, now)
    /\ UNCHANGED <<g_routes, updatedDV, now, mainVars, sendVars, recvVars,
                   histVars, dvVars, netVars,
                   tickVars, sweepVars,
                   sockVars, helloVars>>

\* d seconds pass.
NbrAdvance(d) ==
    /\ now + d <= MaxTime
    /\ now' = now + d
    /\ UNCHANGED <<g_routes, updatedDV, g_neighborsHead, mainVars, sendVars,
                   recvVars, histVars, dvVars, netVars,
                   tickVars, sweepVars,
                   sockVars, helloVars>>

NbrInit == TableInit /\ ReactorOff /\ DvInit /\ TickInit /\ SweepIdle /\ SockInit /\ HelloOff /\ NetIdle

NbrNext ==
    \/ \E senderIP \in NbrSenders, seq \in NbrSeqs : NbrHello(senderIP, seq)
    \/ NbrSweep
    \/ \E d \in NbrSteps : NbrAdvance(d)

NbrSpec == NbrInit /\ [][NbrNext]_vars

\* C10: no two entries of the neighbor table have the same stored ip.
C10_UniqueIp ==
    \A a, b \in 1..Len(g_neighborsHead) :
        a # b => g_neighborsHead[a].ip # g_neighborsHead[b].ip

(***************************************************************************)
(* SweepSpec: the neighbor table with removeStaleNeighbors taken step by   *)
(* step (the clock read, the walk under g_neighborListMutex, the return),  *)
(* interleaved with processHELLO and the passing of time.                  *)
(***************************************************************************)
MaxEntries == 2

\* processHELLO(senderIP, seq): the table part runs under the mutex.
SweepHello(senderIP, seq) ==
    /\ g_neighborsHead' =
           processHELLO(g_neighborsHead, StoredMyIP(MyIP), senderIP, seq, now)
    /\ Len(g_neighborsHead') <= MaxEntries
    /\ nb_last' = "hello"
    /\ nb_prev' = g_neighborsHead
    /\ nb_arg' = [ip |-> senderIP, seq |-> seq]
    /\ nb_at' = now
    /\ UNCHANGED <<g_routes, updatedDV, now, mainVars, sendVars, recvVars,
                   histVars, dvVars, netVars, tickVars, sw_pc, sw_now,
                   sockVars, helloVars>>

\* removeStaleNeighbors: time_t now = nowInSeconds();
SweepRead ==
    /\ sw_pc = "idle"
    /\ sw_now' = now
    /\ sw_pc' = "lock"
    /\ UNCHANGED <<tableVars, mainVars, sendVars, recvVars, histVars, dvVars,
                   netVars, tickVars, nb_last, nb_prev, nb_arg, nb_at,
                   sockVars, helloVars>>

\* removeStaleNeighbors: the walk of the list between lock and unlock.
SweepWalk ==
    /\ sw_pc = "lock"
    /\ g_neighborsHead' = removeStaleNeighbors(g_neighborsHead, sw_now)
    /\ nb_last' = "sweep"
    /\ nb_prev' = g_neighborsHead
    /\ nb_at' = sw_now
    /\ sw_pc' = "ret"
    /\ UNCHANGED <<g_routes, updatedDV, now, mainVars, sendVars, recvVars,
                   histVars, dvVars, netVars, tickVars, sw_now, nb_arg,
                   sockVars, helloVars>>

\* removeStaleNeighbors returns.
SweepReturn ==
    /\ sw_pc = "ret"
    /\ sw_pc' = "idle"
    /\ UNCHANGED <<tableVars, mainVars, sendVars, recvVars, histVars, dvVars,
                   netVars, tickVars, sw_now, nb_last, nb_prev, nb_arg, nb_at,
                   sockVars, helloVars>>

\* d seconds pass.
SweepAdvance(d) ==
    /\ now + d <= MaxTime
    /\ now' = now + d
    /\ UNCHANGED <<g_routes, updatedDV, g_neighborsHead, mainVars, sendVars,
                   recvVars, histVars, dvVars, netVars, tickVars, sweepVars,
                   sockVars, helloVars>>

SweepInit ==
    TableInit /\ ReactorOff /\ DvInit /\ TickInit /\ SweepIdle /\ SockInit /\ HelloOff /\ NetIdle

SweepNext ==
    \/ \E senderIP \in NbrSenders, seq \in NbrSeqs : SweepHello(senderIP, seq)
    \/ SweepRead
    \/ SweepWalk
    \/ SweepReturn
    \/ \E d \in NbrSteps : SweepAdvance(d)

SweepSpec == SweepInit /\ [][SweepNext]_vars

\* C12 as claimed: when removeStaleNeighbors returns, every entry of the table
\* was heard at most NEIGHBOR_TIMEOUT_SEC before the clock value at the return.
C12_FreshAtReturn ==
    sw_pc = "ret" =>
        \A k \in 1..Len(g_neighborsHead) :
            now - g_neighborsHead[k].lastHeard <= NEIGHBOR_TIMEOUT_SEC

\* C12 as amended: when removeStaleNeighbors returns, every entry of the table
\* was heard at most NEIGHBOR_TIMEOUT_SEC before the clock value the sweep read
\* when it began, whatever processHELLO did and however the clock moved since.
C12_FreshAtSweepClock ==
    sw_pc = "ret" =>
        \A k \in 1..Len(g_neighborsHead) :
            sw_now - g_neighborsHead[k].lastHeard <= NEIGHBOR_TIMEOUT_SEC

\* The sweep is about to return, the clock moved on since the sweep read it, and
\* an entry it kept is by now older than the timeout.
C12_Witness ==
    /\ sw_pc = "ret"
    /\ now > sw_now
    /\ \E k \in 1..Len(g_neighborsHead) :
           now - g_neighborsHead[k].lastHeard > NEIGHBOR_TIMEOUT_SEC

\* The age of entry n at the clock value the sweep read.
SweepAge(n) == sw_now - n.lastHeard
NotStale(n) == SweepAge(n) <= NEIGHBOR_TIMEOUT_SEC

\* C13: the table the sweep leaves is the table it found without the entries
\* older than NEIGHBOR_TIMEOUT_SEC: an entry heard exactly NEIGHBOR_TIMEOUT_SEC
\* ago is kept, every older entry is gone, the kept entries are unchanged and
\* in their order.
C13_SweepExact ==
    (sw_pc = "ret" /\ nb_last = "sweep")
        => g_neighborsHead = SelectSeq(nb_prev, NotStale)

\* The sweep found a head heard exactly NEIGHBOR_TIMEOUT_SEC ago followed by an
\* older entry.
C13_Witness ==
    /\ sw_pc = "ret"
    /\ nb_last = "sweep"
    /\ Len(nb_prev) = 2
    /\ SweepAge(nb_prev[1]) = NEIGHBOR_TIMEOUT_SEC
    /\ SweepAge(nb_prev[2]) > NEIGHBOR_TIMEOUT_SEC
    /\ Len(g_neighborsHead) = 1

\* The entry the last processHELLO found in the table (0: none).
HelloFound == findNeighbor(nb_prev, nb_arg.ip)
HelloFromOther == nb_last = "hello" /\ nb_arg.ip # StoredMyIP(MyIP)

\* C14: a HELLO that finds its sender's entry leaves last_seq at the greater of
\* the stored and the received seq (never lower than it was), sets last_heard to
\* the clock, and leaves the ip and every other entry as they were.
C14_SeqMonotone ==
    (HelloFromOther /\ HelloFound > 0) =>
        /\ Len(g_neighborsHead) = Len(nb_prev)
        /\ \A k \in 1..Len(nb_prev) :
               IF k = HelloFound
               THEN /\ g_neighborsHead[k].ip = nb_prev[k].ip
                    /\ g_neighborsHead[k].lastSeq >= nb_prev[k].lastSeq
                    /\ g_neighborsHead[k].lastSeq =
                           IF nb_arg.seq > nb_prev[k].lastSeq
                           THEN nb_arg.seq ELSE nb_prev[k].lastSeq
                    /\ g_neighborsHead[k].lastHeard = nb_at
               ELSE g_neighborsHead[k] = nb_prev[k]

\* A HELLO with a seq below the stored one reached an entry heard earlier.
C14_Witness ==
    /\ HelloFromOther
    /\ HelloFound > 0
    /\ nb_arg.seq < nb_prev[HelloFound].lastSeq
    /\ nb_at > nb_prev[HelloFound].lastHeard

HelloFromSelf == nb_last = "hello" /\ nb_arg.ip = StoredMyIP(MyIP)

\* C15: a HELLO whose sender is the node's own address leaves the neighbor
\* table exactly as it was, whatever its seq, and no entry of the table ever
\* carries the node's own address.
C15_SelfHelloNoEffect ==
    /\ HelloFromSelf => g_neighborsHead = nb_prev
    /\ \A k \in 1..Len(g_neighborsHead) :
           g_neighborsHead[k].ip # StoredMyIP(MyIP)

\* The node's own HELLO arrived while the table held an entry heard earlier
\* with a lower seq.
C15_Witness ==
    /\ HelloFromSelf
    /\ \E k \in 1..Len(nb_prev) :
           /\ nb_prev[k].lastHeard < nb_at
           /\ nb_prev[k].lastSeq < nb_arg.seq

(***************************************************************************)
(* BigSpec: one neighbor advertises one destination after the other, and   *)
(* getDistanceVector serialises the table that results.                    *)
(***************************************************************************)
MaxBig == 57

\* Destination names as createRoute stores them: the first is 17 characters
\* long, the others fill destIP (IP_STR_LEN - 1 characters).
ShortPad == "-aaaaaaaaaaa"
BigPad == "-aaaaaaaaaaaaaaaaaaaaaaaaa"
BigDest(k) == "n" \o NatToStr(1000 + k) \o (IF k = 1 THEN ShortPad ELSE BigPad)

\* The distance the neighbor advertises for its k-th destination.
BigAdvertised(k) == IF k = 1 THEN 14 ELSE 0

\* The datagram of the k-th advertisement.
BigDV(k) ==
    "10.0.0.2:DV:(" \o BigDest(k) \o "," \o NatToStr(BigAdvertised(k)) \o "):"

\* processDistanceVector(BigDV(k)) for the next k, with dvUpdate() when changed.
BigIngest ==
    LET k   == Len(g_routes) + 1
        res == processDistanceVector(g_routes, BigDV(k))
    IN  /\ k <= MaxBig
        /\ g_routes' = res.routes
        /\ updatedDV' = (updatedDV \/ res.changed)
        /\ dv_last' = "process"
        /\ dv_prevRoutes' = g_routes
        /\ dv_prevFlag' = updatedDV
        /\ dv_changed' = res.changed
        /\ dv_repeat' = FALSE
        /\ UNCHANGED <<g_neighborsHead, now, mainVars, sendVars, recvVars,
                       histVars, dv_msg, peerRoutes, netVars, tickVars,
                       sweepVars,
                   sockVars, helloVars>>

\* dv_msg = getDistanceVector()
BigEmit ==
    /\ dv_last # "emit"
    /\ dv_msg' = getDistanceVector(g_routes)
    /\ dv_last' = "emit"
    /\ dv_prevRoutes' = g_routes
    /\ dv_prevFlag' = updatedDV
    /\ dv_changed' = FALSE
    /\ dv_repeat' = FALSE
    /\ UNCHANGED <<tableVars, mainVars, sendVars, recvVars, histVars,
                   peerRoutes, netVars, tickVars, sweepVars,
                   sockVars, helloVars>>

BigInit == TableInit /\ ReactorOff /\ DvInit /\ TickInit /\ SweepIdle /\ SockInit /\ HelloOff /\ NetIdle

BigNext ==
    \/ BigIngest
    \/ BigEmit

BigSpec == BigInit /\ [][BigNext]_vars

\* The (dest, dist) tuples of a DV string, read as processDistanceVector reads
\* them: the tokens after the two header fields that start with "(" and hold a
\* comma; newDist is the listed distance plus one.
IsTuple(t) == t.ok
Listed(dv) ==
    LET t1 == StrTok(dv, 1)
        t2 == StrTok(dv, t1.next)
    IN  SelectSeq(pdvTokens(dv, t2.next), IsTuple)

\* C19 (as stated): the string getDistanceVector returns lists no destination
\* twice, lists only destinations of the table, and gives each listed
\* destination the least distance of its routes.
C19_BestOnce ==
    dv_last = "emit" =>
        LET L == Listed(dv_msg)
        IN  /\ \A a, b \in 1..Len(L) : a # b => L[a].destIP # L[b].destIP
            /\ \A a \in 1..Len(L) :
                   /\ L[a].destIP \in Dests(g_routes)
                   /\ L[a].newDist =
                          IntSucc(findBestDistance(g_routes, L[a].destIP))

(***************************************************************************)
(* ParseSpec: the receiver takes one datagram per step, from parseMessage  *)
(* to the tables, with nothing else running.                               *)
(***************************************************************************)
HELLO_B       == "10.0.0.3:HELLO:2"
HELLO_BadSeq  == "10.0.0.4:HELLO:abc"
HELLO_NoSeq   == "10.0.0.5:HELLO"
OneField      == "10.0.0.6"
DV_BadTuple   == "10.0.0.2:DV:(10.0.0.8,x):(10.0.0.9,2):"
DV_NoParen    == "10.0.0.2:DV:10.0.0.7,1):"

ParseDatagrams ==
    {HELLO_A, HELLO_B, HELLO_BadSeq, HELLO_NoSeq, OneField, Junk,
     DV_A, DV_BadTuple, DV_NoParen}

\* One pass of ReceiverThread's loop: recvfrom gives m, parseMessage hands it
\* to processHELLO or to processDistanceVector (with dvUpdate() when changed).
ParseDeliver(m) ==
    LET buffer == RecvBuffer(m)
        msg    == parseMessage(buffer)
        res    == IF msg.kind = "DV"
                  THEN processDistanceVector(g_routes, buffer)
                  ELSE [routes |-> g_routes, changed |-> FALSE]
    IN  /\ g_neighborsHead' =
               IF msg.kind = "HELLO"
               THEN processHELLO(g_neighborsHead, StoredMyIP(MyIP),
                                 msg.ip, msg.seq, now)
               ELSE g_neighborsHead
        /\ g_routes' = res.routes
        /\ updatedDV' = (updatedDV \/ res.changed)
        /\ dv_last' = "recv"
        /\ dv_msg' = m
        /\ dv_prevRoutes' = g_routes
        /\ dv_prevFlag' = updatedDV
        /\ dv_changed' = res.changed
        /\ dv_repeat' = FALSE
        /\ nb_last' = "recv"
        /\ nb_prev' = g_neighborsHead
        /\ nb_at' = now
        /\ UNCHANGED <<now, mainVars, sendVars, recvVars, histVars, peerRoutes,
                       netVars, tickVars, sw_pc, sw_now, nb_arg,
                   sockVars, helloVars>>

\* dvSent(): updatedDV = 0.
ParseDvSent ==
    /\ updatedDV
    /\ updatedDV' = FALSE
    /\ dv_last' = "sent"
    /\ UNCHANGED <<g_routes, g_neighborsHead, now, mainVars, sendVars,
                   recvVars, histVars, dv_msg, dv_prevRoutes, dv_prevFlag,
                   dv_changed, dv_repeat, peerRoutes, netVars, tickVars,
                   sweepVars,
                   sockVars, helloVars>>

ParseInit == TableInit /\ ReactorOff /\ DvInit /\ TickInit /\ SweepIdle /\ SockInit /\ HelloOff /\ NetIdle

ParseNext ==
    \/ \E m \in ParseDatagrams : ParseDeliver(m)
    \/ ParseDvSent

ParseSpec == ParseInit /\ [][ParseNext]_vars

\* The ":"-separated fields of a datagram, from position pos on.
RECURSIVE Fields(_, _)
Fields(buf, pos) ==
    LET t == StrTok(buf, pos)
    IN  IF ~t.found THEN <<>> ELSE <<t.tok>> \o Fields(buf, t.next)

\* A decimal integer: one digit or more and nothing else.
IsDecimal(s) == Len(s) > 0 /\ \A i \in 1..Len(s) : IsDigit(Char(s, i))

\* ip:HELLO:seq with a decimal seq; ip:DV:...
ValidHello(f) == Len(f) >= 3 /\ f[2] = "HELLO" /\ IsDecimal(f[3])
ValidDV(f) == Len(f) >= 2 /\ f[2] = "DV"

\* A field of the form (ip,int).
WellFormedTuple(tok) ==
    /\ Len(tok) >= 5
    /\ Char(tok, 1) = "("
    /\ Char(tok, Len(tok)) = ")"
    /\ LET comma == StrChr(tok, ",")
       IN  /\ comma > 2
           /\ IsDecimal(SubSeq(tok, comma + 1, Len(tok) - 1))

\* The tuples of a DV's fields that are well formed, parsed.
WellFormedTuples(f) ==
    LET body == SelectSeq(SubSeq(f, 3, Len(f)), WellFormedTuple)
    IN  [k \in 1..Len(body) |-> pdvParse(body[k])]

\* C20 (as stated): a datagram that is neither a valid HELLO nor a valid DV
\* leaves the neighbor table, the route table and updatedDV as they were; a
\* valid DV leaves the route table as applying its well-formed tuples alone, in
\* order, leaves it.
C20_MalformedNoEffect ==
    dv_last = "recv" =>
        LET f == Fields(dv_msg, 1)
        IN  /\ (~ValidHello(f) /\ ~ValidDV(f)) =>
                   /\ g_neighborsHead = nb_prev
                   /\ g_routes = dv_prevRoutes
                   /\ updatedDV = dv_prevFlag
            /\ ValidDV(f) =>
                   g_routes = pdvLoop(dv_prevRoutes, f[1],
                                      WellFormedTuples(f), FALSE).routes

(***************************************************************************)
(* FrameSpec: DVs of two neighbors, every tuple of the form (ip,int) with  *)
(* names that fit a table entry, handed to processDistanceVector one call  *)
(* per step.                                                               *)
(***************************************************************************)
DV_Other == "10.0.0.3:DV:(10.0.0.4,1):(10.0.0.5,0):"

FrameDatagrams == {DV_A, DV_B, DV_Dup, DV_Other}

FrameInit == DvInitState

FrameNext ==
    \/ \E m \in FrameDatagrams : DvProcess(m)
    \/ DvDvSent

FrameSpec == FrameInit /\ [][FrameNext]_vars

\* The destination and the distance a tuple (ip,int) advertises.
TupleDest(tok) == SubSeq(tok, 2, StrChr(tok, ",") - 1)
TupleDist(tok) == Atoi(SubSeq(tok, StrChr(tok, ",") + 1, Len(tok) - 1))

\* The fields of a DV after the header; all of them tuples whose names fit.
Body(f) == SubSeq(f, 3, Len(f))
FitsEntry(ipStr) == Len(ipStr) < IP_STR_LEN
TuplesFit(f) ==
    /\ ValidDV(f)
    /\ FitsEntry(f[1])
    /\ \A k \in 1..Len(Body(f)) :
           WellFormedTuple(Body(f)[k]) /\ FitsEntry(TupleDest(Body(f)[k]))

\* The destinations a DV lists, and the distance of its last tuple for dest.
ListedDests(f) == {TupleDest(Body(f)[k]) : k \in 1..Len(Body(f))}
LastDist(f, dest) ==
    LET ks == {k \in 1..Len(Body(f)) : TupleDest(Body(f)[k]) = dest}
        k  == CHOOSE x \in ks : \A y \in ks : y <= x
    IN  TupleDist(Body(f)[k])

MaxClock == 12

PeerIP == "10.0.0.2"

\* snprintf(message, sizeof(message), "%s:HELLO:%hu", g_myIP, seq)
HelloText(ipStr, seq) == StrNCpy(ipStr \o ":HELLO:" \o NatToStr(seq), 127)

\* The message pass number n of a sender built (none before the first pass).
BuiltAt(ipStr, n) ==
    IF n < 1 THEN "" ELSE HelloText(ipStr, (n - 1) % USHORT_RANGE)

\* The sender has just started, or it has been running for USHORT_RANGE - 2
\* passes.
HelloStarts == {0, USHORT_RANGE - 2}

\* What the peer's sender puts on the wire around its wrap.
PeerHellos ==
    {HelloText(PeerIP, USHORT_RANGE - 1), HelloText(PeerIP, 0),
     HelloText(PeerIP, 1)}

NodeDatagrams == PeerHellos \cup {DV_A}

\* sleep() returns after the interval or later.
NodeSleeps == {HELLO_INTERVAL_SEC, HELLO_INTERVAL_SEC + 1}

\* A pass of the sender that does not count a HELLO whose sendto failed.
NodeSeqAfter_OnSuccess(seq, ok) ==
    IF ok THEN (seq + 1) % USHORT_RANGE ELSE seq

\* seq++ on the unsigned short, whatever sendto returned.
NodeSeqAfter(seq, ok) == (seq + 1) % USHORT_RANGE

\* A sweep that also drops the routes whose via is no longer a neighbor.
RoutesAfterSweep_Purge(routes, list) ==
    LET Alive(r) == findNeighbor(list, r.viaNeighbor) > 0
    IN  SelectSeq(routes, Alive)

\* removeStaleNeighbors works on the neighbor list alone: the route list is
\* after the sweep what it was before.
RoutesAfterSweep(routes, list) == routes

\* One pass of the sender's loop: the HELLO is built and sent (ok: sendto did
\* not fail), seq++, the stale neighbors are removed, and the DV is broadcast
\* when updatedDV is set (okDV: that sendto did not fail; dvSent() then).
NodePass(ok, okDV) ==
    /\ spc = "loop"
    /\ h_built' = HelloText(StoredMyIP(MyIP), h_seq)
    /\ h_prevBuilt' = h_built
    /\ h_air' = IF ok THEN h_built' ELSE ""
    /\ h_seq' = NodeSeqAfter(h_seq, ok)
    /\ h_fires' = h_fires + 1
    /\ g_neighborsHead' = removeStaleNeighbors(g_neighborsHead, now)
    /\ g_routes' = RoutesAfterSweep(g_routes, g_neighborsHead')
    /\ nb_last' = "sweep"
    /\ nb_prev' = g_neighborsHead
    /\ nb_at' = now
    /\ IF updatedDV
       THEN /\ dv_last' = "emit"
            /\ dv_msg' = getDistanceVector(g_routes')
            /\ updatedDV' = ~okDV
       ELSE /\ dv_last' = "pass"
            /\ okDV
            /\ UNCHANGED <<dv_msg, updatedDV>>
    /\ dv_prevRoutes' = g_routes
    /\ dv_prevFlag' = updatedDV
    /\ dv_changed' = FALSE
    /\ dv_repeat' = FALSE
    /\ spc' = "nap"
    /\ UNCHANGED <<now, mainVars, s_i, s_dv, recvVars, histVars,
                   peerRoutes, netVars, tickVars, sw_pc, sw_now, nb_arg,
                   sockVars>>

\* sleep(HELLO_INTERVAL_SEC)
NodeSleep(d) ==
    /\ spc = "nap"
    /\ now + d <= MaxClock
    /\ now' = now + d
    /\ spc' = "loop"
    /\ UNCHANGED <<g_routes, updatedDV, g_neighborsHead, mainVars, s_i, s_dv,
                   recvVars, histVars, dvVars, netVars, tickVars, sweepVars,
                   sockVars, helloVars>>

\* The receiver takes a datagram of the peer, or the node's own HELLO.
NodeRecv ==
    \E m \in NodeDatagrams \cup ({h_air} \ {""}) : ParseDeliver(m)

NodeInit ==
    /\ TableInit /\ DvInit /\ TickInit /\ SweepIdle /\ SockInit /\ NetIdle
    /\ g_running = TRUE
    /\ g_sock = "open"
    /\ mpc = "off"
    /\ spc = "loop"
    /\ rpc = "none"
    /\ s_i = 0
    /\ s_dv = ""
    /\ r_msg = NoMsg
    /\ r_dv = NoDV
    /\ r_toks = <<>>
    /\ r_changed = FALSE
    /\ nbrFreed = FALSE
    /\ routesFreed = FALSE
    /\ chgSinceSnap = FALSE
    /\ unsentChange = FALSE
    /\ dvFate = "none"
    /\ sendsSinceUpdate = 0
    /\ h_fires \in HelloStarts
    /\ h_seq = h_fires % USHORT_RANGE
    /\ h_built = BuiltAt(StoredMyIP(MyIP), h_fires)
    /\ h_prevBuilt = BuiltAt(StoredMyIP(MyIP), h_fires - 1)
    /\ h_air = ""

NodeNext ==
    \/ \E ok, okDV \in BOOLEAN : NodePass(ok, okDV)
    \/ \E d \in NodeSleeps : NodeSleep(d)
    \/ NodeRecv

NodeSpec == NodeInit /\ [][NodeNext]_vars

\* The seq a HELLO carries: its third field, read as a decimal number.
SeqOf(msg) == Atoi(Fields(msg, 1)[3])

\* C24 (as stated): the first HELLO carries seq 0 and every later one a seq
\* exactly one greater than the HELLO before it.
C24_SeqIncreasing ==
    /\ h_fires = 1 => SeqOf(h_built) = 0
    /\ h_fires >= 2 => SeqOf(h_built) = SeqOf(h_prevBuilt) + 1

\* C24 (amended): the first HELLO carries seq 0 and every later one the seq of
\* the HELLO before it plus one modulo 65536 (after 65535 comes 0), whether or
\* not the send before succeeded and whatever the neighbor table holds.
C24_SeqModulo ==
    /\ h_fires = 1 => SeqOf(h_built) = 0
    /\ h_fires >= 2 =>
           SeqOf(h_built) = (SeqOf(h_prevBuilt) + 1) % USHORT_RANGE

\* The pass after the one that sent seq 65535 built seq 0, its sendto failed,
\* and no neighbor is present.
C24_Witness ==
    /\ h_fires >= 2
    /\ SeqOf(h_prevBuilt) = USHORT_RANGE - 1
    /\ SeqOf(h_built) = 0
    /\ h_air = ""
    /\ spc = "nap"
    /\ g_neighborsHead = <<>>

\* The last datagram was a HELLO of another node; the entry processHELLO found
\* for its sender (0: none).
PeerHelloTaken ==
    /\ nb_last = "recv"
    /\ ValidHello(Fields(dv_msg, 1))
    /\ Fields(dv_msg, 1)[1] # StoredMyIP(MyIP)
PeerEntry == findNeighbor(nb_prev, Fields(dv_msg, 1)[1])
AgeAtSweep(n) == nb_at - n.lastHeard

C25_WrapKeepsPeer ==
    /\ (PeerHelloTaken /\ PeerEntry > 0) =>
           LET was == nb_prev[PeerEntry]
               is  == g_neighborsHead[PeerEntry]
           IN  /\ SeqOf(dv_msg) \in 0..(USHORT_RANGE - 1)
               /\ is.lastSeq >= was.lastSeq
               /\ SeqOf(dv_msg) <= was.lastSeq =>
                      /\ is.lastSeq = was.lastSeq
                      /\ is.lastHeard = nb_at
    /\ nb_last = "sweep" =>
           \A k \in 1..Len(nb_prev) :
               (/\ nb_prev[k].lastSeq = USHORT_RANGE - 1
                /\ AgeAtSweep(nb_prev[k]) <= NEIGHBOR_TIMEOUT_SEC)
                   => InSeq(nb_prev[k], g_neighborsHead)

\* The peer's HELLO with seq 0 reached the entry that holds lastSeq 65535,
\* some seconds after the HELLO before it.
C25_Witness ==
    /\ PeerHelloTaken
    /\ PeerEntry > 0
    /\ dv_msg = HelloText(PeerIP, 0)
    /\ nb_prev[PeerEntry].lastSeq = USHORT_RANGE - 1
    /\ nb_prev[PeerEntry].lastHeard < nb_at
    /\ g_neighborsHead[PeerEntry].lastSeq = USHORT_RANGE - 1
    /\ g_neighborsHead[PeerEntry].lastHeard = nb_at

\* The (dest, via) keys of a route list.
RouteKeys(routes) ==
    {<<routes[k].destIP, routes[k].viaNeighbor>> : k \in 1..Len(routes)}

\* The pass just made removed a neighbor.
SweepRemoved == nb_last = "sweep" /\ Len(g_neighborsHead) < Len(nb_prev)

\* C26: no step takes a (dest, via) key out of the route table; a pass whose
\* sweep removed a neighbor leaves the route list as it was and does not set
\* updatedDV; and the DV such a pass broadcasts lists every destination of the
\* table, the ones reached through the removed neighbor too, at the best
\* distance over all routes.
C26_RoutesStay ==
    /\ [][RouteKeys(g_routes) \subseteq RouteKeys(g_routes')]_vars
    /\ [](SweepRemoved =>
             /\ g_routes = dv_prevRoutes
             /\ updatedDV => dv_prevFlag
             /\ dv_last = "emit" =>
                    \A d \in Dests(g_routes) :
                        \E a \in 1..Len(Listed(dv_msg)) :
                            /\ Listed(dv_msg)[a].destIP = d
                            /\ Listed(dv_msg)[a].newDist =
                                   IntSucc(findBestDistance(g_routes, d)))

\* The sweep removed the peer while the table held routes through it, and the
\* same pass broadcast the DV.
C26_Witness ==
    /\ SweepRemoved
    /\ findNeighbor(nb_prev, PeerIP) > 0
    /\ findNeighbor(g_neighborsHead, PeerIP) = 0
    /\ \E k \in 1..Len(g_routes) : g_routes[k].viaNeighbor = PeerIP
    /\ dv_last = "emit"

(***************************************************************************)
(* PayloadSpec: the route table under DV payloads whose distance field     *)
(* carries a sign. atoi accepts the sign (distance.c:181) and the result   *)
(* is stored as it comes out of distVal + 1 (distance.c:184-194).          *)
(***************************************************************************)
DV_Neg  == "10.0.0.3:DV:(10.0.0.4,-2):"
DV_Zero == "10.0.0.3:DV:(10.0.0.5,-1):"

PayloadDatagrams == FrameDatagrams \cup {DV_Neg, DV_Zero}

PayloadInit == DvInitState

PayloadNext ==
    \/ \E m \in PayloadDatagrams : DvProcess(m)
    \/ DvDvSent

PayloadSpec == PayloadInit /\ [][PayloadNext]_vars

\* C27: every route of the table has a distance of at least 1, whatever DV
\* payloads were received.
C27_DistanceAtLeastOne ==
    \A k \in 1..Len(g_routes) : g_routes[k].distance >= 1

(***************************************************************************)
(* NetSpec: NumNodes daemons on a line, each started from its initial      *)
(* state; node n hears the broadcasts of n - 1, n and n + 1, and every     *)
(* datagram sent is delivered. One step is one tick of a SenderThread or   *)
(* one datagram handled by a ReceiverThread.                               *)
(***************************************************************************)
NumNodes == 3
MaxTicks == 3

Nodes == 1..NumNodes
NetIP(n) == "10.0.0." \o IntToStr(n)
Hears(n) == {m \in Nodes : m - n \in {0 - 1, 0, 1}}
Hops(a, b) == IF a < b THEN b - a ELSE a - b

NetInit ==
    /\ netRoutes = [n \in Nodes |-> <<>>]
    /\ netFlag = [n \in Nodes |-> FALSE]
    /\ netNbr = [n \in Nodes |-> <<>>]
    /\ netSeq = [n \in Nodes |-> 0]
    /\ netInbox = [n \in Nodes |-> <<>>]

\* The HELLO of node n: "<myIP>:HELLO:<seq>".
HelloMessage(n) ==
    NetIP(n) \o ":HELLO:" \o IntToStr(netSeq[n] % USHORT_RANGE)

\* One pass of SenderThread's loop on node n, due every HELLO_INTERVAL_SEC:
\* the HELLO, the sweep, and the DV when updatedDV is set.
NetTick(n) ==
    /\ netSeq[n] < MaxTicks
    /\ netSeq[n] * HELLO_INTERVAL_SEC <= now
    /\ LET out == IF netFlag[n]
                  THEN <<HelloMessage(n), getDistanceVector(netRoutes[n])>>
                  ELSE <<HelloMessage(n)>>
       IN  netInbox' = [m \in Nodes |->
                          IF n \in Hears(m) THEN netInbox[m] \o out
                          ELSE netInbox[m]]
    /\ netSeq' = [netSeq EXCEPT ![n] = @ + 1]
    /\ netNbr' = [netNbr EXCEPT ![n] = removeStaleNeighbors(@, now)]
    /\ netFlag' = [netFlag EXCEPT ![n] = FALSE]
    /\ UNCHANGED <<tableVars, mainVars, sendVars, recvVars, histVars, dvVars,
                   netRoutes, tickVars, sweepVars,
                   sockVars, helloVars>>

\* One pass of ReceiverThread's loop on node n: the oldest datagram waiting.
NetRecv(n) ==
    /\ netInbox[n] # <<>>
    /\ LET buffer == RecvBuffer(Head(netInbox[n]))
           p      == parseMessage(buffer)
           res    == processDistanceVector(netRoutes[n], buffer)
       IN  IF p.kind = "HELLO"
           THEN /\ netNbr' = [netNbr EXCEPT ![n] =
                                processHELLO(@, StoredMyIP(NetIP(n)), p.ip, p.seq, now)]
                /\ UNCHANGED <<netRoutes, netFlag,
                   sockVars, helloVars>>
           ELSE IF p.kind = "DV"
           THEN /\ netRoutes' = [netRoutes EXCEPT ![n] = res.routes]
                /\ netFlag' = [netFlag EXCEPT ![n] = @ \/ res.changed]
                /\ UNCHANGED netNbr
           ELSE UNCHANGED <<netRoutes, netFlag, netNbr,
                   sockVars, helloVars>>
    /\ netInbox' = [netInbox EXCEPT ![n] = Tail(@)]
    /\ UNCHANGED <<tableVars, mainVars, sendVars, recvVars, histVars, dvVars,
                   netSeq, tickVars, sweepVars,
                   sockVars, helloVars>>

\* HELLO_INTERVAL_SEC seconds pass once every node has run the tick that is due
\* and every ReceiverThread has handled the datagrams of the period.
NetAdvance ==
    /\ \A n \in Nodes : netSeq[n] * HELLO_INTERVAL_SEC > now
    /\ \A n \in Nodes : netInbox[n] = <<>>
    /\ now + HELLO_INTERVAL_SEC < MaxTicks * HELLO_INTERVAL_SEC
    /\ now' = now + HELLO_INTERVAL_SEC
    /\ UNCHANGED <<g_routes, updatedDV, g_neighborsHead, mainVars, sendVars,
                   recvVars, histVars, dvVars, netVars,
                   tickVars, sweepVars,
                   sockVars, helloVars>>

NetInitState == TableInit /\ ReactorOff /\ DvInit /\ TickInit /\ SweepIdle /\ SockInit /\ HelloOff /\ NetInit

NetNext ==
    \/ \E n \in Nodes : NetTick(n)
    \/ \E n \in Nodes : NetRecv(n)
    \/ NetAdvance

NetSpec == NetInitState /\ [][NetNext]_vars

\* Nothing is in flight and no node has a DV to send: from here on only
\* HELLOs are sent.
NetQuiescent ==
    /\ \A n \in Nodes : netInbox[n] = <<>> /\ ~netFlag[n]
    /\ \A n \in Nodes : netSeq[n] >= 1

NetConverged ==
    \A a, b \in Nodes :
        a # b => findBestDistance(netRoutes[a], NetIP(b)) = Hops(a, b)

\* C1: on the line, with every datagram delivered and handled, every node holds
\* a route to every other node at a best distance equal to the hop count; once
\* nothing but HELLOs remains to be sent, the tables have converged.
C1_Converged == NetQuiescent => NetConverged
=============================================================================
